---- MODULE Spec2Model ----
(***************************************************************************)
(* The level-checkpointed run loop of the three WaniKani scrapers          *)
(* (radicals_scraper.py, scrapers/kanji.py, vocabulary_scraper_clean.py):  *)
(* the input index, the checkpoint file and the output file on disk, and   *)
(* one scraper process at a time that loads the checkpoint, loads the      *)
(* existing results, processes the levels item by item and saves after     *)
(* every level.  The process can be killed between any two steps and in    *)
(* the middle of a file write, file writes can fail, and the scraper can   *)
(* be started again on the files the previous process left.                *)
(***************************************************************************)
EXTENDS Integers, Sequences, FiniteSets, TLC

\* ------------------------------------------------------------------ bounds
MaxLevel == 2
MaxItems == 2
MaxBlocks == 2
MaxParas == 2

Drivers == {"radical", "kanji", "vocabulary"}
Levels == 1..MaxLevel


\* ------------------------------------------------------------- conversions
Digits == <<"0", "1", "2", "3", "4", "5", "6", "7", "8", "9">>

RECURSIVE str(_)
\* Python's str(level) of a non-negative int: the decimal digits.
str(n) == IF n < 10 THEN Digits[n + 1] ELSE str(n \div 10) \o Digits[(n % 10) + 1]

\* Python's None and an Optional[int] value.
None == << >>
Some(n) == << n >>

\* A value that is not None and no number (a str, a list, a dict).
NotAnInt == <<"not", "int">>
IsInt(v) == Len(v) = 1

\* A float: n plus a fraction, 0 for a whole one such as 1.0.  The first
\* component is its integral part.
Float(n) == <<n, "float">>
IsFloat(v) == Len(v) = 2 /\ v[2] = "float"

\* ------------------------------------------------------------------- files
\* A file is absent, holds text that is not JSON (empty or cut short), holds
\* bytes that are not UTF-8 (cut short inside a character: the output file is
\* written with ensure_ascii=False), or holds a JSON object.
AbsentFile == [kind |-> "absent", llc |-> 0, data |-> << >>]
InvalidFile == [kind |-> "invalid", llc |-> 0, data |-> << >>]
UndecodableFile == [kind |-> "undecodable", llc |-> 0, data |-> << >>]
CheckpointJson(n) == [kind |-> "object", llc |-> n, data |-> << >>]

\* Checkpoint files that are JSON but not what _save_checkpoint() writes: JSON
\* that is no object (a list, a string, a number, null), an object without the
\* key last_completed_level (or with null for it), an object whose value is
\* no number (a string, a list, an object), and an object whose value is a
\* float with integral part n (1.0, 1.5).
NotObjectFile == [kind |-> "not_object", llc |-> 0, data |-> << >>]
NoKeyFile == [kind |-> "no_key", llc |-> 0, data |-> << >>]
NotIntFile == [kind |-> "not_int", llc |-> 0, data |-> << >>]
FloatFile(n) == [kind |-> "float", llc |-> n, data |-> << >>]
ResultsJson(r) == [kind |-> "object", llc |-> 0, data |-> r]

\* The input file: absent, not JSON, not readable (no permission, a directory,
\* bytes that are not UTF-8), JSON that is no object, or the JSON object idx.
AbsentInput == [kind |-> "absent", data |-> << >>]
InvalidInput == [kind |-> "invalid", data |-> << >>]
UnreadableInput == [kind |-> "unreadable", data |-> << >>]
NotObjectInput == [kind |-> "not_object", data |-> << >>]
InputJson(idx) == [kind |-> "object", data |-> idx]

exists(f) == f.kind # "absent"

\* A dict with key k set to v.
Put(d, k, v) == [x \in DOMAIN d \cup {k} |-> IF x = k THEN v ELSE d[x]]

\* ------------------------------------------------------------------- pages
\* A page as the mnemonic and explanation extractors see it: its h3 headings
\* that name a mnemonic (an explanation), in document order.  Of each heading:
\*   sub   it lies in a <section class="subject-section__subsection">,
\*   sec   its enclosing <section class="subject-section">: "none", "plain",
\*         or "reading" when the section has class subject-section--reading,
\*   h2    the text of the h2 before it: "none" when there is no h2, "other"
\*         when it names neither meaning, word type nor reading,
\*   paras its paragraphs in document order, of each its class (a
\*         subject-hint__text paragraph is a hint, a subject-section__text
\*         paragraph is not) and its inner HTML, stripped: "" when it is empty.
SecKinds == {"none", "plain", "reading"}
H2Kinds == {"none", "meaning", "word type", "reading", "other"}

\* The text of the j-th paragraph of the i-th heading when it has any.
ParaOf(i, j) == "m" \o str(i) \o "p" \o str(j)

\* The text of the i-th heading when it has one paragraph.
TextOf(i) == ParaOf(i, 1)

\* The paragraphs a heading can have: of each, whether it is an empty text
\* paragraph, a text paragraph or a hint.
ParaKinds == {"empty", "text", "hint"}
ParaShapes == UNION {[1..n -> ParaKinds] : n \in 0..MaxParas}

\* What a heading can look like, and the i-th heading of that look.
Shapes == [sub : BOOLEAN, sec : SecKinds, h2 : H2Kinds, paras : ParaShapes]

BlockAt(shape, i) ==
    [sub |-> shape.sub, sec |-> shape.sec, h2 |-> shape.h2,
     paras |-> [j \in DOMAIN shape.paras |->
                   [hint |-> shape.paras[j] = "hint",
                    html |-> IF shape.paras[j] = "empty" THEN "" ELSE ParaOf(i, j)]]]

\* find_all("p", class_="subject-section__text") and
\* find_all("p", class_="subject-hint__text"): the stripped inner HTML of the
\* paragraphs of the class, in document order.
IsText(p) == ~p.hint
IsHint(p) == p.hint
html_of(ps) == [j \in DOMAIN ps |-> ps[j].html]
text_parts(ps) == html_of(SelectSeq(ps, IsText))
hint_parts(ps) == html_of(SelectSeq(ps, IsHint))

\* The kanji extractor's mnemonic_parts: the text paragraphs, then the hints.
mnemonic_parts(ps) == text_parts(ps) \o hint_parts(ps)

RECURSIVE join(_, _)
\* Python's sep.join(parts).
join(sep, parts) ==
    IF parts = << >> THEN ""
    ELSE IF Len(parts) = 1 THEN parts[1]
    ELSE parts[1] \o sep \o join(sep, Tail(parts))

RECURSIVE trim(_)
\* The parts without the empty ones at either end.  Every part is stripped, so
\* sep.join(parts).strip() is sep.join(trim(parts)) for a separator of white
\* space.
trim(parts) ==
    IF parts = << >> THEN << >>
    ELSE IF parts[1] = "" THEN trim(Tail(parts))
    ELSE IF parts[Len(parts)] = "" THEN trim(SubSeq(parts, 1, Len(parts) - 1))
    ELSE parts

\* The page whose headings look as f says.
Soup(f) == [i \in DOMAIN f |-> BlockAt(f[i], i)]

\* The two pages the site shows in a run: one without any mnemonic heading and
\* one with a meaning mnemonic.
NoMnemonicPage == << >>
MnemonicPage ==
    <<[sub |-> TRUE, sec |-> "plain", h2 |-> "meaning",
      paras |-> <<[hint |-> FALSE, html |-> TextOf(1)]>>]>>
Pages == {NoMnemonicPage, MnemonicPage}

\* ------------------------------------------------------------- input index
\* The i-th input item of level l.
Item(l, i) == [character |-> <<"c", l, i>>, url |-> <<"u", l, i>>]

\* The index with cnt[l] items at level l; cnt[l] = -1 leaves the key out.
IndexOf(cnt) ==
    [key \in {str(l) : l \in {x \in Levels : cnt[x] >= 0}} |->
        LET l == CHOOSE x \in Levels : str(x) = key
        IN [i \in 1..cnt[l] |-> Item(l, i)]]

Indexes == {IndexOf(cnt) : cnt \in [Levels -> {-1, 0, MaxItems}]}

VARIABLES
    driver,        \* which of the three scrapers this is
    index,         \* the input file's level -> items index
    input_file,    \* the input file on disk: what open() and json.load make of it
    ckptFile,      \* the checkpoint file on disk
    outFile,       \* the output file on disk
    pc,            \* where the process is
    arg_start,     \* run()'s start_level argument as passed
    start_level,   \* run()'s start_level variable
    end_level,     \* run()'s end_level
    checkpoint,    \* run()'s checkpoint variable
    results,       \* self.results
    level,         \* the loop variable of run()
    k,             \* position in the level's item list (1-based)
    level_results, \* process_level()'s level_results
    fetched,       \* the page fetches issued by this process, in order: level,
                   \* item, whether the item succeeded, the sleep after it
    save_err,      \* the saves of the current level that logged a failure
    failure,       \* the error that ended the process, "none" if none
    exit_code,     \* how the process ended
    completed,     \* the levels this process completed
    prev,          \* how the previous process ended and what it had done
    io_fault,      \* a file write of this process failed or was cut short
    last_write,    \* how the latest file write of this process ended
    site           \* the version of the site this process is shown

vars == <<driver, index, input_file, ckptFile, outFile, pc, arg_start, start_level,
          end_level, checkpoint, results, level, k, level_results, fetched,
          save_err, failure, exit_code, completed, prev, io_fault, last_write,
          site>>

files == <<ckptFile, outFile>>
locals == <<arg_start, start_level, end_level, checkpoint, results, level, k,
            level_results>>

NoPrev == [outcome |-> "none", completed |-> {}, fetched |-> {}, fault |-> FALSE,
           start |-> 1, end |-> 1]

Init ==
    /\ driver \in Drivers
    /\ index \in Indexes
    /\ input_file = InputJson(index)
    /\ ckptFile = AbsentFile
    /\ outFile = AbsentFile
    /\ pc = "idle"
    /\ arg_start = 1
    /\ start_level = 1
    /\ end_level = 1
    /\ checkpoint = None
    /\ results = << >>
    /\ level = 1
    /\ k = 1
    /\ level_results = << >>
    /\ fetched = << >>
    /\ save_err = {}
    /\ failure = "none"
    /\ exit_code = "none"
    /\ completed = {}
    /\ prev = NoPrev
    /\ io_fault = FALSE
    /\ last_write = "none"
    /\ site = MnemonicPage

Cleared ==
    /\ start_level' = 1 /\ checkpoint' = None /\ results' = << >>
    /\ level' = 1 /\ k' = 1 /\ level_results' = << >>
    /\ UNCHANGED <<arg_start, end_level>>

Running == pc \notin {"idle", "done", "halted", "killed"}

\* The levels of which this process has fetched at least one item.
FetchedLevels == {fetched[i][1] : i \in DOMAIN fetched}

\* ------------------------------------------------------------ construction
\* open() and json.load of the output file: the dict, or the exception raised.
load_json(f) ==
    IF f.kind = "object" THEN [raised |-> FALSE, error |-> "none", value |-> f.data]
    ELSE IF f.kind = "undecodable"
    THEN [raised |-> TRUE, error |-> "UnicodeDecodeError", value |-> << >>]
    ELSE [raised |-> TRUE, error |-> "JSONDecodeError", value |-> << >>]

\* _load_existing_results() of the radical and vocabulary scrapers.
load_existing_results(f) ==
    IF exists(f) /\ ~load_json(f).raised THEN load_json(f).value ELSE << >>

\* self.results as __init__ leaves it.
InitResults(drv, f) ==
    IF drv = "kanji" THEN << >> ELSE load_existing_results(f)

\* A new process: __init__ and the call of run(start, end).  The site shows the
\* process one of its versions.
Construct ==
    /\ pc \in {"idle", "done", "halted", "killed"}
    /\ \E s \in Levels, e \in Levels :
        /\ s <= e
        /\ arg_start' = s
        /\ start_level' = s
        /\ end_level' = e
        /\ level' = s
    /\ site' \in Pages
    /\ results' = InitResults(driver, outFile)
    /\ checkpoint' = None
    /\ k' = 1
    /\ level_results' = << >>
    /\ fetched' = << >>
    /\ save_err' = {}
    /\ failure' = "none"
    /\ exit_code' = "none"
    /\ completed' = {}
    /\ io_fault' = FALSE
    /\ last_write' = "none"
    /\ pc' = "load_checkpoint"
    /\ UNCHANGED <<driver, index, input_file, files>>

\* The scraper is started on the files it finds.
Start == Construct /\ UNCHANGED prev

\* The scraper is started, and what the previous process did is remembered.
Restart ==
    /\ Construct
    /\ prev' = [outcome |-> pc, completed |-> completed, fetched |-> FetchedLevels,
                 fault |-> io_fault, start |-> arg_start, end |-> end_level]

\* ------------------------------------------------------------------ resume
\* A _load_checkpoint() that lets the JSON error of an invalid file escape.
load_checkpoint_Strict(drv, f) ==
    IF ~exists(f) THEN [raised |-> FALSE, value |-> None]
    ELSE IF f.kind = "invalid" THEN [raised |-> TRUE, value |-> None]
    ELSE [raised |-> FALSE, value |-> Some(f.llc)]

\* _load_checkpoint(): checkpoint.get("last_completed_level") of the loaded
\* JSON, whatever it is; None when there is no file, when it is not JSON, or
\* when the object has no such key.  JSON that is no object has no get(): the
\* kanji scraper catches json.JSONDecodeError and KeyError only, the other two
\* catch every exception and return None.
load_checkpoint(drv, f) ==
    IF ~exists(f) THEN [raised |-> FALSE, value |-> None]
    ELSE IF f.kind = "invalid" THEN [raised |-> FALSE, value |-> None]
    ELSE IF f.kind = "not_object" THEN [raised |-> drv = "kanji", value |-> None]
    ELSE IF f.kind = "no_key" THEN [raised |-> FALSE, value |-> None]
    ELSE IF f.kind = "not_int" THEN [raised |-> FALSE, value |-> NotAnInt]
    ELSE IF f.kind = "float" THEN [raised |-> FALSE, value |-> Float(f.llc)]
    ELSE [raised |-> FALSE, value |-> Some(f.llc)]

\* A run() that resumes only forwards: never below the configured start.
EffectiveStart_NotBelow(cp, s) ==
    IF cp # None /\ cp[1] + 1 > s THEN cp[1] + 1 ELSE s

\* A run() that does not resume: the configured start whatever the checkpoint.
EffectiveStart_Ignore(cp, s) == s

\* run(): "if checkpoint is not None: start_level = checkpoint + 1".  Of a
\* float checkpoint the sum is a float again: the value here is its integral
\* part, and checkpoint tells that start_level is a float.
EffectiveStart(cp, s) == IF cp # None THEN cp[1] + 1 ELSE s

\* The process ends on an error: sys.exit(1) in the kanji scraper, an exception
\* that leaves run() and the script in the other two.
Halt(why) ==
    /\ pc' = "halted"
    /\ failure' = why
    /\ exit_code' = "nonzero"

\* run(): the resume check.  A checkpoint that is no number (a str, a list)
\* raises TypeError in "checkpoint + 1", outside any try; a float is added to
\* and the run goes on to the loading of the output file.
run_load_checkpoint ==
    /\ pc = "load_checkpoint"
    /\ LET r == load_checkpoint(driver, ckptFile) IN
        IF r.raised
        THEN /\ Halt("load_checkpoint")
             /\ UNCHANGED <<checkpoint, start_level, level>>
        ELSE IF r.value # None /\ ~IsInt(r.value) /\ ~IsFloat(r.value)
        THEN /\ Halt("resume")
             /\ checkpoint' = r.value
             /\ UNCHANGED <<start_level, level>>
        ELSE /\ checkpoint' = r.value
             /\ start_level' = EffectiveStart(r.value, start_level)
             /\ level' = EffectiveStart(r.value, start_level)
             /\ pc' = "load_results"
             /\ UNCHANGED <<failure, exit_code>>
    /\ UNCHANGED <<site, driver, index, input_file, files, arg_start, end_level, results, k,
                   level_results, fetched, save_err, completed, prev, io_fault, last_write>>

\* A run() that starts from an empty store instead of the output file.
load_results_Fresh(drv, f, cur) == [raised |-> FALSE, value |-> << >>]

\* run(): "Load any existing results".  The kanji scraper catches
\* json.JSONDecodeError only and then leaves self.results as it is; the other
\* two catch every exception and reset self.results to {}.
load_results(drv, f, cur) ==
    IF ~exists(f) THEN [raised |-> FALSE, value |-> cur]
    ELSE IF ~load_json(f).raised THEN [raised |-> FALSE, value |-> load_json(f).value]
    ELSE IF drv # "kanji" THEN [raised |-> FALSE, value |-> << >>]
    ELSE IF load_json(f).error = "JSONDecodeError" THEN [raised |-> FALSE, value |-> cur]
    ELSE [raised |-> TRUE, value |-> cur]

run_load_results ==
    /\ pc = "load_results"
    /\ LET r == load_results(driver, outFile, results) IN
        /\ results' = r.value
        /\ IF r.raised
           THEN Halt("load_results")
           ELSE /\ pc' = "loop"
                /\ UNCHANGED <<failure, exit_code>>
    /\ UNCHANGED <<site, driver, index, input_file, files, arg_start, start_level, end_level,
                   checkpoint, level, k, level_results, fetched, save_err,
                   completed, prev, io_fault, last_write>>

\* ---------------------------------------------------------------- the loop
\* "for level in range(start_level, end_level + 1)": the next level, or the
\* end of the loop.  range() of a float start_level raises TypeError, outside
\* any try, before the first level.
LoopHead ==
    /\ pc = "loop"
    /\ IF checkpoint # None /\ IsFloat(checkpoint)
       THEN /\ Halt("resume")
            /\ UNCHANGED save_err
       ELSE IF level <= end_level
       THEN /\ pc' = "process_level"
            /\ save_err' = {}
            /\ UNCHANGED <<failure, exit_code>>
       ELSE /\ pc' = "cleanup"
            /\ UNCHANGED <<save_err, failure, exit_code>>
    /\ UNCHANGED <<site, driver, index, input_file, files, locals, fetched,
                   completed, prev, io_fault, last_write>>

\* A process_level() that treats an empty item list as an error.
LevelLookup_EmptyRaises(drv, idx, lvl) ==
    IF str(lvl) \notin DOMAIN idx
    THEN IF drv = "radical" THEN "empty" ELSE "raise"
    ELSE IF idx[str(lvl)] = << >> THEN "raise"
    ELSE "iterate"

\* A process_level() that takes a level that is no key of the index for an
\* empty level, in every scraper.
LevelLookup_MissingIsEmpty(drv, idx, lvl) ==
    IF str(lvl) \notin DOMAIN idx THEN "empty"
    ELSE IF drv = "radical" /\ idx[str(lvl)] = << >> THEN "empty"
    ELSE "iterate"

\* The head of process_level(): a level that is no key of the index is an error
\* in the kanji and vocabulary scrapers and an empty level in the radical one,
\* which also returns at once on an empty list.
LevelLookup(drv, idx, lvl) ==
    IF str(lvl) \notin DOMAIN idx
    THEN IF drv = "radical" THEN "empty" ELSE "raise"
    ELSE IF drv = "radical" /\ idx[str(lvl)] = << >> THEN "empty"
    ELSE "iterate"

ProcessLevel ==
    /\ pc = "process_level"
    /\ LET what == LevelLookup(driver, index, level) IN
        /\ level_results' = << >>
        /\ k' = 1
        /\ IF what = "raise"
           THEN Halt("level_not_found")
           ELSE /\ pc' = IF what = "empty" THEN "store" ELSE "items"
                /\ UNCHANGED <<failure, exit_code>>
    /\ UNCHANGED <<site, driver, index, input_file, files, arg_start, start_level, end_level,
                   checkpoint, results, level, fetched, save_err, completed,
                   prev, io_fault, last_write>>

\* RadicalsScraper.extract_mnemonic(): of the first mnemonic heading that lies
\* in a subject-section and whose paragraphs, joined by a space and stripped,
\* are not empty, that text; ValueError when there is none.
RECURSIVE extract_mnemonic(_, _)
extract_mnemonic(soup, i) ==
    IF i > Len(soup) THEN [raised |-> TRUE, value |-> ""]
    ELSE IF soup[i].sec # "none" /\ join(" ", trim(text_parts(soup[i].paras))) # ""
    THEN [raised |-> FALSE, value |-> join(" ", trim(text_parts(soup[i].paras)))]
    ELSE extract_mnemonic(soup, i + 1)

\* WaniKaniScraper.extract_mnemonics(): every mnemonic heading in a subsection
\* whose subject-section is found sets the reading or the meaning mnemonic to
\* its text paragraphs and then its hints, joined by two newlines, as they are.
RECURSIVE extract_mnemonics(_, _, _)
extract_mnemonics(soup, i, mnemonics) ==
    IF i > Len(soup) THEN mnemonics
    ELSE IF ~soup[i].sub THEN extract_mnemonics(soup, i + 1, mnemonics)
    ELSE IF soup[i].sec = "none" THEN extract_mnemonics(soup, i + 1, mnemonics)
    ELSE IF soup[i].sec = "reading"
    THEN extract_mnemonics(soup, i + 1, [mnemonics EXCEPT !.reading = join("\n\n", mnemonic_parts(soup[i].paras))])
    ELSE extract_mnemonics(soup, i + 1, [mnemonics EXCEPT !.meaning = join("\n\n", mnemonic_parts(soup[i].paras))])

\* WaniKaniVocabularyScraper.extract_explanation_with_tags(): every explanation
\* heading in a subject-section sets the explanation its previous h2 names to
\* its paragraphs joined by a space, as they are; without an h2 it sets the
\* meaning explanation when that is still the empty string.
RECURSIVE extract_explanation_with_tags(_, _, _)
extract_explanation_with_tags(soup, i, explanations) ==
    IF i > Len(soup) THEN explanations
    ELSE IF soup[i].sec = "none"
    THEN extract_explanation_with_tags(soup, i + 1, explanations)
    ELSE IF soup[i].h2 = "none"
    THEN extract_explanation_with_tags(soup, i + 1,
            IF explanations.meaning = ""
            THEN [explanations EXCEPT !.meaning = join(" ", text_parts(soup[i].paras))]
            ELSE explanations)
    ELSE IF soup[i].h2 \in {"meaning", "word type"}
    THEN extract_explanation_with_tags(soup, i + 1,
            [explanations EXCEPT !.meaning = join(" ", text_parts(soup[i].paras))])
    ELSE IF soup[i].h2 = "reading"
    THEN extract_explanation_with_tags(soup, i + 1,
            [explanations EXCEPT !.reading = join(" ", text_parts(soup[i].paras))])
    ELSE extract_explanation_with_tags(soup, i + 1, explanations)

NoText == [meaning |-> "", reading |-> ""]

\* Extractors that give a radical without mnemonic an empty mnemonic field.
extract_Lenient(drv, item, soup) ==
    [raised |-> FALSE,
     value |->
        IF drv = "radical"
        THEN [character |-> item.character, url |-> item.url,
              mnemonic |-> extract_mnemonic(soup, 1).value]
        ELSE IF drv = "kanji"
        THEN [character |-> item.character, url |-> item.url,
              mnemonics |-> extract_mnemonics(soup, 1, NoText)]
        ELSE [character |-> item.character, url |-> item.url,
              meaning_explanation |-> extract_explanation_with_tags(soup, 1, NoText).meaning,
              reading_explanation |-> extract_explanation_with_tags(soup, 1, NoText).reading]]

\* Extractors that require both mnemonics (explanations) of a kanji or a
\* vocabulary item, as the radical one requires its mnemonic.
extract_Required(drv, item, soup) ==
    IF \/ drv = "radical" /\ extract_mnemonic(soup, 1).raised
       \/ drv = "kanji" /\ "" \in {extract_mnemonics(soup, 1, NoText).meaning,
                                   extract_mnemonics(soup, 1, NoText).reading}
       \/ drv = "vocabulary"
            /\ "" \in {extract_explanation_with_tags(soup, 1, NoText).meaning,
                       extract_explanation_with_tags(soup, 1, NoText).reading}
    THEN [raised |-> TRUE, value |-> << >>]
    ELSE extract_Lenient(drv, item, soup)

\* extract_radical_data(), extract_kanji_data(), extract_vocabulary_data() on
\* a fetched page: the record with the item's character and url and the
\* mnemonic fields (the other fields of the record are left out); the radical
\* scraper raises when extract_mnemonic() does.
extract(drv, item, soup) ==
    IF drv = "radical"
    THEN IF extract_mnemonic(soup, 1).raised
         THEN [raised |-> TRUE, value |-> << >>]
         ELSE [raised |-> FALSE,
               value |-> [character |-> item.character, url |-> item.url,
                          mnemonic |-> extract_mnemonic(soup, 1).value]]
    ELSE IF drv = "kanji"
    THEN [raised |-> FALSE,
          value |-> [character |-> item.character, url |-> item.url,
                     mnemonics |-> extract_mnemonics(soup, 1, NoText)]]
    ELSE [raised |-> FALSE,
          value |-> [character |-> item.character, url |-> item.url,
                     meaning_explanation |->
                        extract_explanation_with_tags(soup, 1, NoText).meaning,
                     reading_explanation |->
                        extract_explanation_with_tags(soup, 1, NoText).reading]]

\* The outcomes of fetching one item's page: a transport error or the page.
FetchOutcomes == {[ok |-> FALSE, soup |-> << >>], [ok |-> TRUE, soup |-> site]}

ItemFailed(drv, item, o) == ~o.ok \/ extract(drv, item, o.soup).raised

\* time.sleep(1.5) after an item, in tenths.
Delay == 15

\* A pass that sleeps only when another item of the level follows.
ItemOK_SleepBetween ==
    /\ pc = "items"
    /\ k <= Len(index[str(level)])
    /\ \E o \in FetchOutcomes :
        /\ ~ItemFailed(driver, index[str(level)][k], o)
        /\ level_results' =
              Append(level_results, extract(driver, index[str(level)][k], o.soup).value)
    /\ fetched' = Append(fetched, <<level, k, TRUE,
                                    IF k < Len(index[str(level)]) THEN Delay ELSE 0>>)
    /\ k' = k + 1
    /\ UNCHANGED <<site, driver, index, input_file, files, pc, arg_start, start_level,
                   end_level, checkpoint, results, level, save_err, failure,
                   exit_code, completed, prev, io_fault, last_write>>

\* A pass that puts the new record in front of the level's records.
ItemOK_Prepend ==
    /\ pc = "items"
    /\ k <= Len(index[str(level)])
    /\ \E o \in FetchOutcomes :
        /\ ~ItemFailed(driver, index[str(level)][k], o)
        /\ level_results' =
              <<extract(driver, index[str(level)][k], o.soup).value>> \o level_results
    /\ fetched' = Append(fetched, <<level, k, TRUE, Delay>>)
    /\ k' = k + 1
    /\ UNCHANGED <<site, driver, index, input_file, files, pc, arg_start, start_level,
                   end_level, checkpoint, results, level, save_err, failure,
                   exit_code, completed, prev, io_fault, last_write>>

\* One pass of the item loop that succeeds: fetch, extract, append, sleep.
ItemOK ==
    /\ pc = "items"
    /\ k <= Len(index[str(level)])
    /\ \E o \in FetchOutcomes :
        /\ ~ItemFailed(driver, index[str(level)][k], o)
        /\ level_results' =
              Append(level_results, extract(driver, index[str(level)][k], o.soup).value)
    /\ fetched' = Append(fetched, <<level, k, TRUE, Delay>>)
    /\ k' = k + 1
    /\ UNCHANGED <<site, driver, index, input_file, files, pc, arg_start, start_level,
                   end_level, checkpoint, results, level, save_err, failure,
                   exit_code, completed, prev, io_fault, last_write>>

\* A failing pass that keeps the records collected so far as the level's entry.
ItemFails_KeepPartial ==
    /\ pc = "items"
    /\ k <= Len(index[str(level)])
    /\ \E o \in FetchOutcomes : ItemFailed(driver, index[str(level)][k], o)
    /\ fetched' = Append(fetched, <<level, k, FALSE, 0>>)
    /\ results' = Put(results, str(level), level_results)
    /\ Halt("item")
    /\ UNCHANGED <<site, driver, index, input_file, files, arg_start, start_level, end_level,
                   checkpoint, level, k, level_results, save_err, completed, prev,
                   io_fault, last_write>>

\* A failing pass that logs the error and goes on with the next item.
ItemFails_SkipAndContinue ==
    /\ pc = "items"
    /\ k <= Len(index[str(level)])
    /\ \E o \in FetchOutcomes : ItemFailed(driver, index[str(level)][k], o)
    /\ fetched' = Append(fetched, <<level, k, FALSE, 0>>)
    /\ k' = k + 1
    /\ UNCHANGED <<site, driver, index, input_file, files, pc, arg_start, start_level,
                   end_level, checkpoint, results, level, level_results, save_err,
                   failure, exit_code, completed, prev, io_fault, last_write>>

\* A failing pass after which run() logs the error and goes on with the next
\* level.
ItemFails_NextLevel ==
    /\ pc = "items"
    /\ k <= Len(index[str(level)])
    /\ \E o \in FetchOutcomes : ItemFailed(driver, index[str(level)][k], o)
    /\ fetched' = Append(fetched, <<level, k, FALSE, 0>>)
    /\ pc' = "loop"
    /\ level' = level + 1
    /\ UNCHANGED <<site, driver, index, input_file, files, arg_start, start_level, end_level,
                   checkpoint, results, k, level_results, save_err, failure,
                   exit_code, completed, prev, io_fault, last_write>>

\* One pass of the item loop that fails: the exception is logged and raised
\* again by process_level() and by run(), which ends the process.
ItemFails ==
    /\ pc = "items"
    /\ k <= Len(index[str(level)])
    /\ \E o \in FetchOutcomes : ItemFailed(driver, index[str(level)][k], o)
    /\ fetched' = Append(fetched, <<level, k, FALSE, 0>>)
    /\ Halt("item")
    /\ UNCHANGED <<site, driver, index, input_file, files, locals, save_err, completed, prev,
                   io_fault, last_write>>

\* The item loop is exhausted: process_level() returns level_results.
LevelReturn ==
    /\ pc = "items"
    /\ k > Len(index[str(level)])
    /\ pc' = "store"
    /\ UNCHANGED <<site, driver, index, input_file, files, locals, fetched, save_err,
                   failure, exit_code, completed, prev, io_fault, last_write>>

\* A run() that goes to the checkpoint without saving the results.
AfterStore_SkipSave(drv, lr) == "save_checkpoint"

\* run() after process_level(): the radical scraper stores and saves only a
\* level with results ("if level_results:"), the other two always.
AfterStore(drv, lr) ==
    IF drv = "radical" /\ lr = << >> THEN "save_checkpoint" ELSE "save_results"

\* A run() that keeps only the level just processed in the store.
StoreResults_Replace(drv, res, lvl, lr) ==
    IF drv = "radical" /\ lr = << >> THEN res ELSE Put(<< >>, str(lvl), lr)

StoreResults(drv, res, lvl, lr) ==
    IF drv = "radical" /\ lr = << >> THEN res ELSE Put(res, str(lvl), lr)

Store ==
    /\ pc = "store"
    /\ results' = StoreResults(driver, results, level, level_results)
    /\ pc' = AfterStore(driver, level_results)
    /\ UNCHANGED <<site, driver, index, input_file, files, arg_start, start_level, end_level,
                   checkpoint, level, k, level_results, fetched, save_err,
                   failure, exit_code, completed, prev, io_fault, last_write>>

\* ------------------------------------------------------------------- saves
\* open(path, "w") and json.dump: the write succeeds, open() fails and leaves
\* the file alone, or the write fails after open() has truncated the file.
WriteOutcomes == {"ok", "open_failed", "write_failed"}

\* What a write that is cut short leaves: the checkpoint is ASCII, the output
\* file can also end inside a character of one of its records.
CutShort(new) ==
    IF \E key \in DOMAIN new.data : new.data[key] # << >>
    THEN {InvalidFile, UndecodableFile}
    ELSE {InvalidFile}

Written(old, new, o) ==
    IF o = "ok" THEN {new}
    ELSE IF o = "open_failed" THEN {old}
    ELSE CutShort(new)

\* Saves that log every failure and go on, in the kanji scraper too.
SaveRaises_Never(drv, o) == FALSE

\* The kanji scraper's saves raise; the other two log the failure and go on.
SaveRaises(drv, o) == drv = "kanji" /\ o # "ok"

\* _save_results().
SaveResults ==
    /\ pc = "save_results"
    /\ \E o \in WriteOutcomes :
        /\ outFile' \in Written(outFile, ResultsJson(results), o)
        /\ io_fault' = (io_fault \/ o # "ok")
        /\ last_write' = o
        /\ IF SaveRaises(driver, o)
           THEN /\ Halt("save_results")
                /\ UNCHANGED save_err
           ELSE /\ pc' = "save_checkpoint"
                /\ save_err' = IF o = "ok" THEN save_err ELSE save_err \cup {"results"}
                /\ UNCHANGED <<failure, exit_code>>
    /\ UNCHANGED <<site, driver, index, input_file, ckptFile, locals, fetched, completed, prev>>

\* A loop that does not move on after it has checkpointed a level.
SaveCheckpoint_SameLevel ==
    /\ pc = "save_checkpoint"
    /\ \E o \in WriteOutcomes :
        /\ ckptFile' \in Written(ckptFile, CheckpointJson(level), o)
        /\ io_fault' = (io_fault \/ o # "ok")
        /\ last_write' = o
        /\ IF SaveRaises(driver, o)
           THEN /\ Halt("save_checkpoint")
                /\ UNCHANGED <<save_err, level, completed>>
           ELSE /\ pc' = "loop"
                /\ level' = level
                /\ completed' = completed \cup {level}
                /\ save_err' = IF o = "ok" THEN save_err ELSE save_err \cup {"checkpoint"}
                /\ UNCHANGED <<failure, exit_code>>
    /\ UNCHANGED <<site, driver, index, input_file, outFile, arg_start, start_level,
                   end_level, checkpoint, results, k, level_results, fetched, prev>>

\* _save_checkpoint(level), and the end of the loop body.
SaveCheckpoint ==
    /\ pc = "save_checkpoint"
    /\ \E o \in WriteOutcomes :
        /\ ckptFile' \in Written(ckptFile, CheckpointJson(level), o)
        /\ io_fault' = (io_fault \/ o # "ok")
        /\ last_write' = o
        /\ IF SaveRaises(driver, o)
           THEN /\ Halt("save_checkpoint")
                /\ UNCHANGED <<save_err, level, completed>>
           ELSE /\ pc' = "loop"
                /\ level' = level + 1
                /\ completed' = completed \cup {level}
                /\ save_err' = IF o = "ok" THEN save_err ELSE save_err \cup {"checkpoint"}
                /\ UNCHANGED <<failure, exit_code>>
    /\ UNCHANGED <<site, driver, index, input_file, outFile, arg_start, start_level,
                   end_level, checkpoint, results, k, level_results, fetched, prev>>

\* A run() that leaves the checkpoint file in place when the loop is over.
Cleanup_KeepCheckpoint ==
    /\ pc = "cleanup"
    /\ pc' = "done"
    /\ exit_code' = "zero"
    /\ UNCHANGED <<site, driver, index, input_file, files, locals, fetched, save_err,
                   failure, completed, prev, io_fault, last_write>>

\* run() after the loop: "if self.checkpoint_file.exists(): unlink()".
Cleanup ==
    /\ pc = "cleanup"
    /\ ckptFile' = IF exists(ckptFile) THEN AbsentFile ELSE ckptFile
    /\ pc' = "done"
    /\ exit_code' = "zero"
    /\ UNCHANGED <<site, driver, index, input_file, outFile, locals, fetched, save_err,
                   failure, completed, prev, io_fault, last_write>>

\* ------------------------------------------------------------------- kills
\* The process is killed between two steps.
Kill ==
    /\ Running
    /\ pc' = "killed"
    /\ exit_code' = "signal"
    /\ Cleared
    /\ UNCHANGED <<site, driver, index, input_file, files, fetched, save_err,
                   failure, completed, prev, io_fault, last_write>>

\* The process is killed in time.sleep(1.5): the item is fetched and its record
\* appended, the delay is not slept.
KillInSleep ==
    /\ pc = "items"
    /\ k <= Len(index[str(level)])
    /\ \E o \in FetchOutcomes : ~ItemFailed(driver, index[str(level)][k], o)
    /\ fetched' = Append(fetched, <<level, k, TRUE, 0>>)
    /\ pc' = "killed"
    /\ exit_code' = "signal"
    /\ Cleared
    /\ UNCHANGED <<site, driver, index, input_file, files, save_err, failure,
                   completed, prev, io_fault, last_write>>

\* The process is killed in a file write, after open() has truncated the file.
KillInWrite ==
    /\ pc \in {"save_results", "save_checkpoint"}
    /\ IF pc = "save_results"
       THEN outFile' \in CutShort(ResultsJson(results)) /\ UNCHANGED ckptFile
       ELSE ckptFile' \in CutShort(CheckpointJson(level)) /\ UNCHANGED outFile
    /\ pc' = "killed"
    /\ exit_code' = "signal"
    /\ io_fault' = TRUE
    /\ last_write' = "cut"
    /\ Cleared
    /\ UNCHANGED <<site, driver, index, input_file, fetched, save_err, failure,
                   completed, prev>>

Step ==
    \/ run_load_checkpoint
    \/ run_load_results
    \/ LoopHead
    \/ ProcessLevel
    \/ ItemOK
    \/ ItemFails
    \/ LevelReturn
    \/ Store
    \/ SaveResults
    \/ SaveCheckpoint
    \/ Cleanup
    \/ Kill
    \/ KillInSleep
    \/ KillInWrite

Next == Start \/ Step

Spec == Init /\ [][Next]_vars

\* The same scraper, with the previous process remembered at every start.
NextResume == Restart \/ Step

SpecResume == Init /\ [][NextResume]_vars

\* ------------------------------------------------------------ one extraction
\* The extractors alone: one item, any page, one call of extract_*_data()
\* after the fetch.
InitExtract ==
    /\ driver \in Drivers
    /\ \E n \in 0..MaxBlocks : \E f \in [1..n -> Shapes] : site = Soup(f)
    /\ index = IndexOf([l \in Levels |-> IF l = 1 THEN MaxItems ELSE -1])
    /\ input_file = InputJson(index)
    /\ ckptFile = AbsentFile
    /\ outFile = AbsentFile
    /\ pc = "fetched"
    /\ arg_start = 1
    /\ start_level = 1
    /\ end_level = 1
    /\ checkpoint = None
    /\ results = << >>
    /\ level = 1
    /\ k = 1
    /\ level_results = << >>
    /\ fetched = << >>
    /\ save_err = {}
    /\ failure = "none"
    /\ exit_code = "none"
    /\ completed = {}
    /\ prev = NoPrev
    /\ io_fault = FALSE
    /\ last_write = "none"

\* extract_*_data() returns the record of the item.
ExtractReturns ==
    /\ pc = "fetched"
    /\ ~extract(driver, index[str(level)][k], site).raised
    /\ level_results' = <<extract(driver, index[str(level)][k], site).value>>
    /\ pc' = "extracted"
    /\ UNCHANGED <<site, driver, index, input_file, files, arg_start, start_level, end_level,
                   checkpoint, results, level, k, fetched, save_err, failure,
                   exit_code, completed, prev, io_fault, last_write>>

\* extract_*_data() logs the error and raises it again.
ExtractRaises ==
    /\ pc = "fetched"
    /\ extract(driver, index[str(level)][k], site).raised
    /\ pc' = "extract_raised"
    /\ failure' = "item"
    /\ UNCHANGED <<site, driver, index, input_file, files, locals, fetched, save_err,
                   exit_code, completed, prev, io_fault, last_write>>

NextExtract == ExtractReturns \/ ExtractRaises

SpecExtract == InitExtract /\ [][NextExtract]_vars

\* ------------------------------------------------------------ readings text
\* The text of a readings paragraph, a sequence of characters, and the string
\* operations extract_readings() applies to it.
\* Characters other than ASCII are written as their code points: U+3001 is the
\* comma the site uses, U+3042, U+3044 and U+3046 are the kana A, I and U.
Space == " "
Comma == ","
WideComma == "U+3001"
KanaA == "U+3042"
KanaI == "U+3044"
KanaU == "U+3046"
Chars == {KanaA, Space, Comma, WideComma, "N", "n", "o", "e"}
MaxChars == 4

\* The readings strings the specification names, and two more.
ExampleNone == <<KanaA, ",", " ", "N", "o", "n", "e", ",", " ", KanaI>>
ExampleOnlyNone == <<"N", "o", "n", "e">>
ExampleWide == <<KanaA, WideComma, KanaI, WideComma, KanaU>>
ExampleStandard == <<KanaA, ",", " ", KanaI, ",", " ", KanaU>>
ExampleMixed == <<" ", KanaA, WideComma, "n", "o", "n", "e", " ", ",", ",", KanaI, " ">>
Examples == {ExampleNone, ExampleOnlyNone, ExampleWide, ExampleStandard, ExampleMixed}

\* str.lower()
lower(s) == [i \in DOMAIN s |-> IF s[i] = "N" THEN "n" ELSE s[i]]

RECURSIVE lstrip(_)
lstrip(s) == IF s # << >> /\ Head(s) = Space THEN lstrip(Tail(s)) ELSE s

RECURSIVE rstrip(_)
rstrip(s) ==
    IF s # << >> /\ s[Len(s)] = Space THEN rstrip(SubSeq(s, 1, Len(s) - 1)) ELSE s

\* str.strip()
strip(s) == rstrip(lstrip(s))

\* str.replace(old, new) of one character by another.
replace(s, old, new) == [i \in DOMAIN s |-> IF s[i] = old THEN new ELSE s[i]]

RECURSIVE split(_, _, _)
\* str.split(sep): the pieces of s between the separators, cur being the piece
\* that is open.
split(s, sep, cur) ==
    IF s = << >> THEN <<cur>>
    ELSE IF Head(s) = sep THEN <<cur>> \o split(Tail(s), sep, << >>)
    ELSE split(Tail(s), sep, Append(cur, Head(s)))

none == <<"n", "o", "n", "e">>

\* A parse that splits at the standard comma only.
parse_readings_StandardOnly(text) ==
    LET readings_text == strip(text) IN
    IF readings_text # << >> /\ lower(readings_text) # none
    THEN LET parts == split(readings_text, Comma, << >>)
             kept == SelectSeq(parts, LAMBDA r : strip(r) # << >> /\ lower(strip(r)) # none)
         IN [i \in DOMAIN kept |-> strip(kept[i])]
    ELSE << >>

\* A parse that drops the token "None" only as it is written there.
parse_readings_ExactNone(text) ==
    LET readings_text == strip(text) IN
    IF readings_text # << >> /\ lower(readings_text) # none
    THEN LET parts == split(replace(readings_text, WideComma, Comma), Comma, << >>)
             kept == SelectSeq(parts, LAMBDA r : strip(r) # << >> /\ strip(r) # ExampleOnlyNone)
         IN [i \in DOMAIN kept |-> strip(kept[i])]
    ELSE << >>

\* extract_readings(): the readings list of one readings paragraph, from
\* get_text().strip() to the list that is added to the readings of its type.
parse_readings(text) ==
    LET readings_text == strip(text) IN
    IF readings_text # << >> /\ lower(readings_text) # none
    THEN LET parts == split(replace(readings_text, WideComma, Comma), Comma, << >>)
             kept == SelectSeq(parts, LAMBDA r : strip(r) # << >> /\ lower(strip(r)) # none)
         IN [i \in DOMAIN kept |-> strip(kept[i])]
    ELSE << >>

\* One readings paragraph of a kanji page, any text, before extract_readings()
\* reads it.
InitReadings ==
    /\ driver = "kanji"
    /\ \/ \E n \in 0..MaxChars : site \in [1..n -> Chars]
       \/ site \in Examples
    /\ index = IndexOf([l \in Levels |-> IF l = 1 THEN MaxItems ELSE -1])
    /\ input_file = InputJson(index)
    /\ ckptFile = AbsentFile
    /\ outFile = AbsentFile
    /\ pc = "fetched"
    /\ arg_start = 1
    /\ start_level = 1
    /\ end_level = 1
    /\ checkpoint = None
    /\ results = << >>
    /\ level = 1
    /\ k = 1
    /\ level_results = << >>
    /\ fetched = << >>
    /\ save_err = {}
    /\ failure = "none"
    /\ exit_code = "none"
    /\ completed = {}
    /\ prev = NoPrev
    /\ io_fault = FALSE
    /\ last_write = "none"

\* extract_readings() on the paragraph: the record gets the list.
ExtractReadings ==
    /\ pc = "fetched"
    /\ level_results' = <<[character |-> index[str(level)][k].character,
                           url |-> index[str(level)][k].url,
                           readings |-> parse_readings(site)]>>
    /\ pc' = "extracted"
    /\ UNCHANGED <<site, driver, index, input_file, files, arg_start, start_level, end_level,
                   checkpoint, results, level, k, fetched, save_err, failure,
                   exit_code, completed, prev, io_fault, last_write>>

NextReadings == ExtractReadings

SpecReadings == InitReadings /\ [][NextReadings]_vars

\* ------------------------------------------------------ the command line
\* main() of the kanji scraper: the level range of the command line is
\* validated, the scraper is constructed on the input file, run() is called.
MaxCliLevel == 60

\* The values of --start and --end that are tried.
Args == {0, 1, MaxLevel, MaxCliLevel, MaxCliLevel + 1}

\* A check that does not compare start with end.
ValidRange_Unordered(s, e) ==
    1 <= s /\ s <= MaxCliLevel /\ 1 <= e /\ e <= MaxCliLevel

\* main(): "1 <= args.start <= args.end <= 60".
ValidRange(s, e) == 1 <= s /\ s <= e /\ e <= MaxCliLevel

\* _load_kanji_data(): FileNotFoundError and json.JSONDecodeError are logged
\* and end the process with sys.exit(1); any other error of open() or
\* json.load leaves the constructor uncaught.  JSON that is no object is
\* returned as it is; no level can be looked up in it.
load_kanji_data(f) ==
    IF f.kind = "absent" THEN [raised |-> TRUE, error |-> "input_not_found", value |-> << >>]
    ELSE IF f.kind = "invalid" THEN [raised |-> TRUE, error |-> "input_invalid", value |-> << >>]
    ELSE IF f.kind = "unreadable" THEN [raised |-> TRUE, error |-> "input_unreadable", value |-> << >>]
    ELSE [raised |-> FALSE, error |-> "none", value |-> f.data]

InputFiles ==
    {AbsentInput, InvalidInput, UnreadableInput, NotObjectInput}
        \cup {InputJson(idx) : idx \in Indexes}

\* The kanji script is started with a command line and an input file.
InitMain ==
    /\ driver = "kanji"
    /\ input_file \in InputFiles
    /\ index = << >>
    /\ arg_start \in Args
    /\ end_level \in Args
    /\ ckptFile = AbsentFile
    /\ outFile = AbsentFile
    /\ pc = "main"
    /\ start_level = 1
    /\ checkpoint = None
    /\ results = << >>
    /\ level = 1
    /\ k = 1
    /\ level_results = << >>
    /\ fetched = << >>
    /\ save_err = {}
    /\ failure = "none"
    /\ exit_code = "none"
    /\ completed = {}
    /\ prev = NoPrev
    /\ io_fault = FALSE
    /\ last_write = "none"
    /\ site = MnemonicPage

\* main(): the range check.
main_validate ==
    /\ pc = "main"
    /\ IF ValidRange(arg_start, end_level)
       THEN pc' = "construct" /\ UNCHANGED <<failure, exit_code>>
       ELSE Halt("range")
    /\ UNCHANGED <<site, driver, index, input_file, files, locals, fetched,
                   save_err, completed, prev, io_fault, last_write>>

\* main(): WaniKaniScraper(args.input, args.output) and the call of
\* run(args.start, args.end).
main_construct ==
    /\ pc = "construct"
    /\ LET r == load_kanji_data(input_file) IN
        IF r.raised
        THEN /\ Halt(r.error)
             /\ UNCHANGED <<index, start_level, level, site>>
        ELSE /\ index' = r.value
             /\ start_level' = arg_start
             /\ level' = arg_start
             /\ site' \in Pages
             /\ pc' = "load_checkpoint"
             /\ UNCHANGED <<failure, exit_code>>
    /\ UNCHANGED <<driver, input_file, files, arg_start, end_level, checkpoint,
                   results, k, level_results, fetched, save_err, completed, prev,
                   io_fault, last_write>>

NextMain == main_validate \/ main_construct \/ Step

SpecMain == InitMain /\ [][NextMain]_vars

\* ------------------------------------------------------------------ one run
\* One run of a scraper on whatever checkpoint file and output file it finds.
CheckpointFiles ==
    {AbsentFile, InvalidFile, NotObjectFile, NoKeyFile, NotIntFile, FloatFile(1)}
        \cup {CheckpointJson(l) : l \in Levels}

\* The entry of a level as an earlier run stored it.
EarlierEntry == <<[character |-> "earlier", url |-> "earlier"]>>

OutputFiles ==
    {AbsentFile, InvalidFile, UndecodableFile, ResultsJson(<< >>),
     ResultsJson(Put(<< >>, str(1), EarlierEntry))}

\* __init__ is over and run(s, e) is called.
InitRun ==
    /\ driver \in Drivers
    /\ index \in Indexes
    /\ input_file = InputJson(index)
    /\ ckptFile \in CheckpointFiles
    /\ outFile \in OutputFiles
    /\ pc = "load_checkpoint"
    /\ \E s \in Levels, e \in Levels :
        /\ s <= e
        /\ arg_start = s
        /\ start_level = s
        /\ end_level = e
        /\ level = s
    /\ results = InitResults(driver, outFile)
    /\ checkpoint = None
    /\ k = 1
    /\ level_results = << >>
    /\ fetched = << >>
    /\ save_err = {}
    /\ failure = "none"
    /\ exit_code = "none"
    /\ completed = {}
    /\ prev = NoPrev
    /\ io_fault = FALSE
    /\ last_write = "none"
    /\ site = MnemonicPage

SpecRun == InitRun /\ [][Step]_vars

\* The steps the process takes by itself: run() is sequential code, every call
\* in it returns or raises (requests.get has a timeout, time.sleep is finite).
Work ==
    \/ run_load_checkpoint
    \/ run_load_results
    \/ LoopHead
    \/ ProcessLevel
    \/ ItemOK
    \/ ItemFails
    \/ LevelReturn
    \/ Store
    \/ SaveResults
    \/ SaveCheckpoint
    \/ Cleanup

\* One run that is not left waiting: as long as the process has a next step, it
\* takes it, unless it is killed.
SpecRunFair == SpecRun /\ WF_vars(Work)

\* -------------------------------------------------- a run with a later start
\* One run of a scraper that finds the checkpoint of an earlier run, or none,
\* and is passed any range, also one that starts past the level after the
\* checkpoint and ends past the last level of the index.
PassedLevels == 1..(MaxLevel + 1)

StartOutputFiles ==
    OutputFiles \cup {ResultsJson(Put(<< >>, str(l), EarlierEntry)) : l \in PassedLevels}

InitStart ==
    /\ driver \in Drivers
    /\ index \in Indexes
    /\ input_file = InputJson(index)
    /\ ckptFile \in {AbsentFile} \cup {CheckpointJson(l) : l \in Levels}
    /\ outFile \in StartOutputFiles
    /\ pc = "load_checkpoint"
    /\ \E s \in PassedLevels, e \in PassedLevels :
        /\ s <= e
        /\ arg_start = s
        /\ start_level = s
        /\ end_level = e
        /\ level = s
    /\ results = InitResults(driver, outFile)
    /\ checkpoint = None
    /\ k = 1
    /\ level_results = << >>
    /\ fetched = << >>
    /\ save_err = {}
    /\ failure = "none"
    /\ exit_code = "none"
    /\ completed = {}
    /\ prev = NoPrev
    /\ io_fault = FALSE
    /\ last_write = "none"
    /\ site = MnemonicPage

SpecStart == InitStart /\ [][Step]_vars

\* ------------------------------------------------------------------ claims
\* Level l has at least one item in the input index.
HasItems(l) == str(l) \in DOMAIN index /\ index[str(l)] # << >>

\* Level l is a key of the input index with an empty item list.
IsEmptyLevel(l) == str(l) \in DOMAIN index /\ index[str(l)] = << >>

\* The output file on disk holds an entry for level l.
OutHas(l) == outFile.kind = "object" /\ str(l) \in DOMAIN outFile.data

\* The process stopped because process_level() raised.
LevelFailed == pc = "halted" /\ failure \in {"item", "level_not_found"}

\* C1 (as stated): in every reachable state, if the checkpoint file holds
\* last_completed_level = L and level L has at least one item, the output file
\* on disk holds an entry for L.
C1_CheckpointImpliesOutput ==
    (ckptFile.kind = "object" /\ HasItems(ckptFile.llc)) => OutHas(ckptFile.llc)

\* C1, the ordering that does hold: the output file is written before the
\* checkpoint of the same level.  Whenever the process is about to write the checkpoint of a level L
\* with at least one item, its store holds L's records and the output file on
\* disk holds that same entry, unless the write of the output file failed and
\* the failure was logged and ignored.
C1_ResultsBeforeCheckpoint ==
    (pc = "save_checkpoint" /\ HasItems(level)) =>
        /\ str(level) \in DOMAIN results
        /\ results[str(level)] = level_results
        /\ \/ "results" \in save_err
           \/ OutHas(level) /\ outFile.data[str(level)] = results[str(level)]

C1_Witness ==
    /\ pc = "loop"
    /\ (level - 1) \in completed
    /\ HasItems(level - 1)
    /\ ckptFile = CheckpointJson(level - 1)
    /\ OutHas(level - 1)

\* C2: the first level a process works on is checkpoint + 1 when the checkpoint
\* file holds an integer, whatever start was passed, and the start passed when
\* there is no checkpoint file; the output file has no say in it.
C2_FirstLevel ==
    (pc = "process_level" /\ completed = {} /\ ckptFile.kind # "invalid") =>
        level = IF ckptFile.kind = "object" THEN ckptFile.llc + 1 ELSE arg_start

\* The process starts on the level after the checkpoint, which lies below the
\* start it was passed, with an output file that holds the start passed and
\* not the level after the checkpoint.
C2_Witness ==
    /\ pc = "process_level"
    /\ completed = {}
    /\ ckptFile.kind = "object"
    /\ level = ckptFile.llc + 1
    /\ level < arg_start
    /\ OutHas(arg_start)
    /\ ~OutHas(level)

\* C3 (as stated, the original claim): when a level fails at item k > 1, the store in memory and
\* the output file hold no entry at all for that level.
C3_NoEntryAfterFailure ==
    (LevelFailed /\ failure = "item" /\ k > 1) =>
        /\ str(level) \notin DOMAIN results
        /\ ~OutHas(level)

\* C3 (amended): when a level fails at item k > 1, neither the store in memory
\* nor the output file holds a partial entry for that level: there is no entry,
\* or the complete entry (one record per input item) an earlier run had stored.
C3_NoPartialEntry ==
    (LevelFailed /\ failure = "item" /\ k > 1) =>
        /\ Len(level_results) = k - 1
        /\ str(level) \in DOMAIN results =>
              /\ results[str(level)] # level_results
              /\ Len(results[str(level)]) = Len(index[str(level)])
        /\ OutHas(level) =>
              /\ outFile.data[str(level)] # level_results
              /\ Len(outFile.data[str(level)]) = Len(index[str(level)])

C3_Witness ==
    /\ LevelFailed
    /\ failure = "item"
    /\ k > 1
    /\ level_results # << >>
    /\ str(level) \in DOMAIN results
    /\ OutHas(level)

\* C4: after the first failed item a process issues no further fetch: the
\* failed fetch is the last one, no item is fetched twice, and the process has
\* stopped.
C4_NoFetchAfterFailure ==
    /\ \A i \in DOMAIN fetched :
          ~fetched[i][3] => (i = Len(fetched) /\ pc = "halted" /\ failure = "item")
    /\ \A i, j \in DOMAIN fetched :
          (fetched[i][1] = fetched[j][1] /\ fetched[i][2] = fetched[j][2]) => i = j

C4_Witness ==
    /\ pc = "halted"
    /\ failure = "item"
    /\ fetched # << >>
    /\ ~fetched[Len(fetched)][3]
    /\ k < Len(index[str(level)])
    /\ level < end_level

\* The previous process was killed, no file write of it or of this process
\* failed or was cut short, and this process ran to completion.
CleanRerunDone ==
    /\ prev.outcome = "killed"
    /\ ~prev.fault
    /\ ~io_fault
    /\ pc = "done"

\* The previous process was killed and this one, started with the same
\* arguments, ran to completion.
RerunDone ==
    /\ prev.outcome = "killed"
    /\ arg_start = prev.start
    /\ end_level = prev.end
    /\ pc = "done"

\* C5: wherever the previous process was killed, inside a file write included,
\* once the re-run has completed the output file holds the entry of every
\* level with items that was completed before the kill, and at most one level
\* the killed process had fetched was fetched again.
C5_KillAnywhere ==
    RerunDone =>
        /\ \A l \in prev.completed : HasItems(l) => OutHas(l)
        /\ Cardinality(prev.fetched \cap FetchedLevels) <= 1

\* C5, the case that does hold: when the previous process was killed between
\* two steps and no file write failed or was cut short, then once the re-run has completed the
\* output file holds the entry of every level with items that was completed
\* before the kill, none of these levels was fetched again, and at most one
\* level the killed process had fetched was fetched again.
C5_KillBetweenSteps ==
    CleanRerunDone =>
        /\ \A l \in prev.completed :
              /\ l \notin FetchedLevels
              /\ HasItems(l) =>
                    /\ OutHas(l)
                    /\ str(l) \in DOMAIN results
                    /\ outFile.data[str(l)] = results[str(l)]
                    /\ Len(outFile.data[str(l)]) = Len(index[str(l)])
        /\ Cardinality(prev.fetched \cap FetchedLevels) <= 1

C5_Witness ==
    /\ CleanRerunDone
    /\ \E l \in prev.completed : HasItems(l) /\ OutHas(l)
    /\ Cardinality(prev.fetched \cap FetchedLevels) = 1

\* C6: a process started with the same arguments after one that ran to
\* completion with no failed file write fetches no item of a level that one had
\* completed.
C6_NoRefetchAfterCompletion ==
    (/\ prev.outcome = "done"
     /\ ~prev.fault
     /\ arg_start = prev.start
     /\ end_level = prev.end) =>
        FetchedLevels \cap prev.completed = {}

\* The levels up to the checkpoint this process loaded.
Resumed == IF checkpoint = None THEN {} ELSE 1..checkpoint[1]

\* C6, what does hold: a process that finds a checkpoint c fetches no item of a
\* level up to c, and every write of the output file leaves the entries of the
\* levels up to c as they were in the file; but a run to completion leaves no
\* checkpoint, and the next process starts again at the start it is given.
C6_ResumeKeepsCompleted ==
    [][ /\ \A i \in DOMAIN fetched : fetched[i][1] \notin Resumed
        /\ (pc \in {"save_results", "done"} /\ outFile.kind = "object"
                /\ outFile'.kind = "object") =>
              \A l \in Resumed :
                  OutHas(l) => /\ str(l) \in DOMAIN outFile'.data
                               /\ outFile'.data[str(l)] = outFile.data[str(l)]
        /\ (pc' = "done" => ~exists(ckptFile'))
        /\ (prev.outcome = "done" /\ pc = "process_level" /\ completed = {}) =>
              (checkpoint = None /\ level = arg_start)
      ]_vars

C6_Witness ==
    /\ pc = "done"
    /\ checkpoint # None
    /\ fetched # << >>
    /\ OutHas(checkpoint[1])
    /\ HasItems(checkpoint[1])

\* C7: a checkpoint file that is not valid JSON never makes the load raise; the
\* load yields None and the first level is the start passed to run().
C7_InvalidCheckpoint ==
    /\ failure # "load_checkpoint"
    /\ (ckptFile.kind = "invalid" /\ completed = {}
            /\ pc \in {"load_results", "loop", "process_level"}) =>
          /\ checkpoint = None
          /\ start_level = arg_start
          /\ level = arg_start

C7_Witness ==
    /\ ckptFile.kind = "invalid"
    /\ driver = "kanji"
    /\ pc = "process_level"
    /\ completed = {}
    /\ level = arg_start
    /\ arg_start > 1

\* The levels from the effective start to the configured end.
Range == start_level..end_level

\* C8: a step deletes the checkpoint file only at the end of a run that
\* completed every level from its effective start to the configured end without
\* a failure; such a run ends with no checkpoint file, and a run that stops on
\* a failure never deletes it.
C8_DeletedOnlyOnCompletion ==
    [][ /\ (exists(ckptFile) /\ ~exists(ckptFile')) =>
              /\ pc = "cleanup"
              /\ pc' = "done"
              /\ failure' = "none"
              /\ completed' = Range
        /\ pc' = "done" =>
              /\ ~exists(ckptFile')
              /\ failure' = "none"
              /\ completed' = Range
        /\ pc' = "halted" => ckptFile' = ckptFile \/ failure' = "save_checkpoint"
      ]_vars

C8_Witness ==
    /\ pc = "done"
    /\ checkpoint # None
    /\ completed # {}
    /\ ~exists(ckptFile)

\* C9: when the process stops because a level failed, the checkpoint file
\* names the last level completed (or still loads as what the process loaded,
\* when it completed none), the output file, when there is one, is valid JSON,
\* and the exit status is non-zero.
C9_HaltFilesGood ==
    LevelFailed =>
        /\ exit_code = "nonzero"
        /\ outFile.kind \notin {"invalid", "undecodable"}
        /\ completed # {} => ckptFile = CheckpointJson(level - 1)
        /\ completed = {} => load_checkpoint(driver, ckptFile).value = checkpoint

\* A level of this run was stored and saved.
StoredSome == \E l \in completed : str(l) \in DOMAIN results

\* C9, what does hold: when the process stops because a level failed, the exit
\* status is non-zero, and if no file write of this process failed, the checkpoint
\* file names the last level completed (or still loads as what the process
\* loaded, when it completed none), the output file, if it parses, holds
\* exactly the store, and it does parse when this run stored a level.
C9_HaltLeavesLastGood ==
    LevelFailed =>
        /\ exit_code = "nonzero"
        /\ ~io_fault =>
              /\ completed # {} => ckptFile = CheckpointJson(level - 1)
              /\ completed = {} => load_checkpoint(driver, ckptFile).value = checkpoint
              /\ outFile.kind = "object" => outFile.data = results
              /\ StoredSome => outFile.kind = "object"

C9_Witness ==
    /\ LevelFailed
    /\ ~io_fault
    /\ completed # {}
    /\ StoredSome
    /\ ckptFile = CheckpointJson(level - 1)
    /\ outFile = ResultsJson(results)

\* C10: a level with an empty item list yields an empty record list without an
\* error and without a fetch, and its checkpoint is written: process_level()
\* never stops the process there, and unless the checkpoint write fails
\* the checkpoint file names the level when the loop goes on.
C10_EmptyLevel ==
    /\ \A i \in DOMAIN fetched : ~IsEmptyLevel(fetched[i][1])
    /\ (IsEmptyLevel(level) /\ pc \in {"store", "save_results", "save_checkpoint"}) =>
          level_results = << >>
    /\ (IsEmptyLevel(level) /\ pc = "halted") => ~LevelFailed
    /\ (pc = "loop" /\ (level - 1) \in completed /\ IsEmptyLevel(level - 1)
            /\ "checkpoint" \notin save_err) =>
          ckptFile = CheckpointJson(level - 1)

C10_Witness ==
    /\ pc = "loop"
    /\ (level - 1) \in completed
    /\ IsEmptyLevel(level - 1)
    /\ ckptFile = CheckpointJson(level - 1)
    /\ fetched = << >>
    /\ driver = "radical"

\* The process has just completed level - 1 and both of its file writes
\* succeeded.
JustCompleted ==
    /\ pc = "loop"
    /\ (level - 1) \in completed
    /\ save_err = {}

\* The store and the output file hold, under level l's number, exactly the
\* records the last process_level() returned.
EntryIsLevelResults(l) ==
    /\ str(l) \in DOMAIN results
    /\ results[str(l)] = level_results
    /\ OutHas(l)
    /\ outFile.data[str(l)] = level_results

\* C11 (as stated, the original claim): after every level that completes, a
\* level without items included, the store and the output file hold an entry
\* for the level with exactly the records this run produced for it, in all
\* three scrapers.
C11_EntryAfterEveryLevel ==
    JustCompleted => EntryIsLevelResults(level - 1)

\* C11 (amended): after every level that completes, the store and the output
\* file hold an entry for the level with exactly the records this run produced
\* for it, an empty list for an empty level, in the kanji and vocabulary
\* scrapers; in the radical scraper the same holds for a level that produced
\* records, and a level that produced none leaves the store and the output file
\* as they were, without an entry for it.
C11_EntryAfterLevel ==
    JustCompleted =>
        /\ Len(level_results) =
              IF HasItems(level - 1) THEN Len(index[str(level - 1)]) ELSE 0
        /\ IF driver = "radical" /\ level_results = << >>
           THEN /\ str(level - 1) \notin DOMAIN results
                /\ ~OutHas(level - 1)
           ELSE EntryIsLevelResults(level - 1)

C11_Witness ==
    /\ JustCompleted
    /\ driver = "kanji"
    /\ (level - 2) \in completed
    /\ HasItems(level - 2)
    /\ OutHas(level - 2)
    /\ IsEmptyLevel(level - 1)
    /\ EntryIsLevelResults(level - 1)

\* The process is in the level loop of run().
InLoop == pc \in {"loop", "process_level", "items", "store", "save_results",
                  "save_checkpoint"}

\* C12: a step of the level loop adds or replaces the store's entry of the
\* current level only: every other entry stays as it is and no key leaves the
\* store.
C12_OnlyCurrentLevelChanges ==
    [][ (InLoop /\ pc' # "killed") =>
            /\ DOMAIN results \subseteq DOMAIN results'
            /\ \A key \in DOMAIN results :
                  key # str(level) => results'[key] = results[key]
            /\ \A key \in DOMAIN results' \ DOMAIN results : key = str(level)
      ]_vars

C12_Witness ==
    /\ pc = "save_checkpoint"
    /\ checkpoint # None
    /\ str(checkpoint[1]) \in DOMAIN results
    /\ str(level) \in DOMAIN results
    /\ OutHas(checkpoint[1])
    /\ results[str(checkpoint[1])] = outFile.data[str(checkpoint[1])]
    /\ Cardinality(DOMAIN results) >= 2

\* C13 (as stated, the original claim): a failed write of the output file or of
\* the checkpoint file never ends the process, in any of the three scrapers.
C13_SaveFailureNeverHalts ==
    ~(pc = "halted" /\ failure \in {"save_results", "save_checkpoint"})

\* A step in which the write of the output file or of the checkpoint file
\* failed: open() or json.dump raised, whatever the file holds afterwards.
WriteFailedStep ==
    /\ pc \in {"save_results", "save_checkpoint"}
    /\ pc' # "killed"
    /\ last_write' # "ok"

\* C13 (amended): in the radical and vocabulary scrapers a failed write of the
\* output file or of the checkpoint file is logged and the run goes on, after
\* the checkpoint write with the next level; in the kanji scraper a failed
\* write ends the process with a non-zero status.
C13_SaveFailure ==
    [][ WriteFailedStep =>
            IF driver = "kanji"
            THEN /\ pc' = "halted"
                 /\ exit_code' = "nonzero"
                 /\ level' = level
            ELSE /\ failure' = "none"
                 /\ pc = "save_results" => pc' = "save_checkpoint"
                 /\ pc = "save_checkpoint" => (pc' = "loop" /\ level' = level + 1)
      ]_vars

C13_Witness ==
    /\ driver # "kanji"
    /\ io_fault
    /\ pc = "process_level"
    /\ (level - 1) \in completed
    /\ ckptFile # CheckpointJson(level - 1)

\* C15: the levels a process has completed are exactly those from its
\* effective start up to the one before the current level, the level only ever
\* moves to the next one, when the checkpoint of the current one has been
\* saved, and never beyond the end by more than one.
C15_AscendingLevels ==
    [][ /\ InLoop =>
              /\ completed = {l \in 1..(MaxLevel + 1) : start_level <= l /\ l < level}
              /\ level <= end_level + 1 \/ level = start_level
        /\ (InLoop /\ level' # level /\ pc' # "killed") =>
              /\ pc = "save_checkpoint"
              /\ pc' = "loop"
              /\ level' = level + 1
              /\ failure' = "none"
        /\ (pc = "loop" /\ pc' = "process_level") => level \notin completed
      ]_vars

C15_Witness ==
    /\ pc = "process_level"
    /\ level = start_level + 1
    /\ level = end_level
    /\ completed = {start_level}

\* C14: a process that finds an output file it cannot read or parse goes on
\* with an empty store and does not fail, in all three scrapers.
C14_UnloadableOutputStartsEmpty ==
    /\ failure # "load_results"
    /\ (pc = "loop" /\ completed = {} /\ level = start_level
            /\ outFile.kind \in {"invalid", "undecodable"}) =>
          results = << >>

\* C16: process_level() returns one record per input item, in input order: the
\* i-th record carries the character and the url of the i-th item, while the
\* loop runs the records are those of the items before the current one, and
\* the items of a level are fetched in the order of the list.
C16_OneRecordPerItemInOrder ==
    /\ pc = "items" =>
          /\ Len(level_results) = k - 1
          /\ \A i \in 1..(k - 1) :
                /\ level_results[i].character = index[str(level)][i].character
                /\ level_results[i].url = index[str(level)][i].url
    /\ (pc = "store" /\ HasItems(level)) =>
          /\ Len(level_results) = Len(index[str(level)])
          /\ \A i \in DOMAIN level_results :
                /\ level_results[i].character = index[str(level)][i].character
                /\ level_results[i].url = index[str(level)][i].url
    /\ \A i \in DOMAIN fetched :
          IF i > 1 /\ fetched[i - 1][1] = fetched[i][1]
          THEN fetched[i][2] = fetched[i - 1][2] + 1
          ELSE fetched[i][2] = 1

C16_Witness ==
    /\ pc = "store"
    /\ HasItems(level)
    /\ Len(index[str(level)]) >= 2
    /\ Len(level_results) = Len(index[str(level)])
    /\ level_results[2].character = index[str(level)][2].character
    /\ level_results[1] # level_results[2]

\* C17: between two consecutive fetches of a process, in one level or across
\* two, the delay is slept exactly once: every item that succeeded is followed
\* by one sleep of the fixed delay and a failed item by none.  Only a process
\* killed in the sleep after its last fetch has not slept it.
C17_DelayBetweenFetches ==
    \A i \in DOMAIN fetched :
        /\ fetched[i][4] \in {0, Delay}
        /\ ~fetched[i][3] => fetched[i][4] = 0
        /\ i < Len(fetched) => fetched[i][4] = Delay
        /\ (fetched[i][3] /\ fetched[i][4] = 0) => pc = "killed"

C17_Witness ==
    /\ Len(fetched) >= 3
    /\ fetched[2][1] # fetched[3][1]
    /\ fetched[2][4] = Delay
    /\ ~fetched[3][3]
    /\ fetched[3][4] = 0

\* The radical scraper is in the item loop and the site shows it pages without
\* a mnemonic.
RadicalWithoutMnemonic ==
    /\ driver = "radical"
    /\ pc = "items"
    /\ extract_mnemonic(site, 1).raised

\* C18: in the radical scraper an item whose page has no mnemonic ends the
\* process: the step adds no record, gives the level no entry in the store or
\* in the output file, and leaves the checkpoint file, which does not name the
\* level, as it is.
C18_MissingMnemonicAborts ==
    [][ (RadicalWithoutMnemonic /\ pc' # "killed") =>
            /\ pc' = "halted"
            /\ failure' = "item"
            /\ level_results' = level_results
            /\ results' = results
            /\ outFile' = outFile
            /\ ckptFile' = ckptFile
            /\ level \notin completed'
            /\ ckptFile'.kind = "object" => ckptFile'.llc # level
      ]_vars

C18_Witness ==
    /\ driver = "radical"
    /\ site = NoMnemonicPage
    /\ pc = "halted"
    /\ failure = "item"
    /\ fetched # << >>
    /\ str(level) \notin DOMAIN results
    /\ ~OutHas(level)
    /\ ckptFile = AbsentFile

\* The fields of a kanji or vocabulary record that hold the meaning and the
\* reading mnemonic (explanation).
MeaningOf(rec) ==
    IF driver = "kanji" THEN rec.mnemonics.meaning ELSE rec.meaning_explanation

ReadingOf(rec) ==
    IF driver = "kanji" THEN rec.mnemonics.reading ELSE rec.reading_explanation

HasMnemonicKeys(rec) ==
    IF driver = "kanji"
    THEN /\ "mnemonics" \in DOMAIN rec
         /\ DOMAIN rec.mnemonics = {"meaning", "reading"}
    ELSE {"meaning_explanation", "reading_explanation"} \subseteq DOMAIN rec

\* The headings the extractor of the scraper takes up: in a subsection
\* (kanji), in a subject-section (vocabulary).
Found(b) == IF driver = "kanji" THEN b.sub ELSE b.sec # "none"

\* What the page says a heading is about: the class of its section (kanji),
\* the h2 before it (vocabulary); "none" when nothing says it.
Signal(b) ==
    IF driver = "kanji"
    THEN (IF b.sec = "reading" THEN "reading"
          ELSE IF b.sec = "plain" THEN "meaning" ELSE "none")
    ELSE (IF b.h2 = "reading" THEN "reading"
          ELSE IF b.h2 \in {"meaning", "word type"} THEN "meaning" ELSE "none")

\* The page has no section of the given kind that the extractor takes up.
Lacks(kind) ==
    \A i \in DOMAIN site : ~(Found(site[i]) /\ Signal(site[i]) = kind)

\* The vocabulary extractor takes a heading without an h2 before it for a
\* meaning explanation.
LacksUnnamed ==
    \A i \in DOMAIN site :
        ~(driver = "vocabulary" /\ Found(site[i]) /\ site[i].h2 = "none")

\* C19: the kanji and vocabulary extractors never raise on a page; the record
\* has the meaning and the reading field, the reading field is "" when the
\* page has no reading mnemonic (explanation), and the meaning field is "" when
\* it has no meaning mnemonic (explanation).
C19_MissingMnemonicIsEmpty ==
    driver \in {"kanji", "vocabulary"} =>
        /\ pc # "extract_raised"
        /\ pc = "extracted" =>
              /\ HasMnemonicKeys(level_results[1])
              /\ Lacks("reading") => ReadingOf(level_results[1]) = ""
              /\ (Lacks("meaning") /\ LacksUnnamed) =>
                    MeaningOf(level_results[1]) = ""

C19_Witness ==
    /\ driver = "kanji"
    /\ pc = "extracted"
    /\ Len(site) = 1
    /\ Lacks("reading")
    /\ ReadingOf(level_results[1]) = ""
    /\ MeaningOf(level_results[1]) = TextOf(1)

\* The text the extractor of the scraper makes of a heading's paragraphs.
Joined(b) ==
    IF driver = "kanji" THEN join("\n\n", mnemonic_parts(b.paras))
    ELSE join(" ", text_parts(b.paras))

\* C20: when the kanji or vocabulary extractor takes up a heading with text
\* that no signal classifies, and no later heading is taken up, the meaning
\* field of the record is that text.
C20_UnclassifiedIsMeaning ==
    (driver \in {"kanji", "vocabulary"} /\ pc = "extracted") =>
        \A i \in DOMAIN site :
            (/\ Found(site[i])
             /\ Joined(site[i]) # ""
             /\ Signal(site[i]) = "none"
             /\ \A j \in DOMAIN site : j > i => ~Found(site[j])) =>
                MeaningOf(level_results[1]) = Joined(site[i])

\* The positions of the commas of either kind in a text, with both ends.
Cuts(s) == {0, Len(s) + 1} \cup {i \in DOMAIN s : s[i] \in {Comma, WideComma}}

\* The piece of s that starts after the cut a.
Piece(s, a) ==
    LET b == CHOOSE c \in Cuts(s) : c > a /\ \A d \in Cuts(s) : d > a => c <= d
    IN SubSeq(s, a + 1, b - 1)

\* A piece without the spaces around it.
Trimmed(t) ==
    LET inked == {i \in DOMAIN t : t[i] # Space} IN
    IF inked = {} THEN << >>
    ELSE SubSeq(t, CHOOSE i \in inked : \A j \in inked : i <= j,
                   CHOOSE i \in inked : \A j \in inked : i >= j)

\* A trimmed piece is a reading: not empty and not "none" in any case.
IsReading(t) ==
    /\ t # << >>
    /\ ~(/\ Len(t) = 4
          /\ t[1] \in {"N", "n"} /\ t[2] = "o" /\ t[3] \in {"N", "n"} /\ t[4] = "e")

\* The cuts of s whose piece is a reading.
ReadingCuts(s) == {a \in Cuts(s) \ {Len(s) + 1} : IsReading(Trimmed(Piece(s, a)))}

\* The readings list of the record at hand.
Readings == level_results[1].readings

\* C21: the readings list of a text holds, in the order of the text, the
\* trimmed pieces between its commas that are neither empty nor "None" in any
\* case, and nothing else; "A, None, I" gives ["A", "I"], "None" gives [].
C21_ReadingsParsed ==
    pc = "extracted" =>
        /\ Len(Readings) = Cardinality(ReadingCuts(site))
        /\ \A a \in ReadingCuts(site) :
              Readings[Cardinality({c \in ReadingCuts(site) : c <= a})]
                  = Trimmed(Piece(site, a))
        /\ site = ExampleNone => Readings = <<<<KanaA>>, <<KanaI>>>>
        /\ site = ExampleOnlyNone => Readings = << >>

C21_Witness ==
    /\ pc = "extracted"
    /\ site = ExampleNone
    /\ Readings = <<<<KanaA>>, <<KanaI>>>>

\* The text with every comma written as the standard comma.
StandardCommas(s) == [i \in DOMAIN s |-> IF s[i] = WideComma THEN Comma ELSE s[i]]

\* C22: the readings list of a text is the list of the same text with every
\* full-width comma written as a standard comma, so two texts that differ only
\* in how their commas are written give the same list.
C22_WideCommaSameAsStandard ==
    pc = "extracted" =>
        /\ Readings = parse_readings(StandardCommas(site))
        /\ site = ExampleWide => Readings = parse_readings(ExampleStandard)

C22_Witness ==
    /\ pc = "extracted"
    /\ site = ExampleWide
    /\ Readings = <<<<KanaA>>, <<KanaI>>, <<KanaU>>>>

\* The range the command line has to give.
InRange == 1 <= arg_start /\ arg_start <= end_level /\ end_level <= 60

\* The process ended on an error before it fetched anything.
FatalBeforeFetch ==
    pc = "halted" /\ exit_code = "nonzero" /\ fetched = << >>

\* C23: the kanji command line outside 1 <= start <= end <= 60 ends the process
\* at the range check with a logged error and a non-zero exit; a command line
\* inside the range passes the check; an input file that is absent, not JSON or
\* not readable ends the process in the constructor, and JSON that is no
\* object at the first level; no page is fetched in any of these cases (a
\* process that is killed first ends as killed).
C23_MainRejectsBeforeFetch ==
    /\ (~InRange /\ pc \notin {"main", "killed"}) =>
          (FatalBeforeFetch /\ failure = "range")
    /\ InRange => failure # "range"
    /\ (input_file.kind \in {"absent", "invalid", "unreadable"}
            /\ pc \notin {"main", "construct", "killed"}) =>
          /\ FatalBeforeFetch
          /\ InRange => failure \in {"input_not_found", "input_invalid", "input_unreadable"}
    /\ (input_file.kind = "not_object"
            /\ pc \notin {"main", "construct", "load_checkpoint", "load_results",
                          "loop", "process_level", "killed"}) =>
          (FatalBeforeFetch /\ failure \in {"range", "level_not_found"})
    /\ fetched # << >> => (InRange /\ input_file.kind = "object")

C23_Witness ==
    /\ arg_start = 1
    /\ end_level = 61
    /\ input_file.kind = "object"
    /\ pc = "halted"
    /\ failure = "range"
    /\ exit_code = "nonzero"

\* The checkpoint file is JSON, but no object with an integer
\* last_completed_level.
MalformedCheckpoint ==
    ckptFile.kind \in {"not_object", "no_key", "not_int", "float"}

\* C24: a checkpoint file that is JSON but no object with an integer
\* last_completed_level is taken for no checkpoint: the run does not end at
\* the resume check, and it goes on from the configured start with no
\* checkpoint loaded.
C24_MalformedCheckpointIsNone ==
    /\ failure \notin {"load_checkpoint", "resume"}
    /\ (pc = "load_results" /\ MalformedCheckpoint) =>
          (checkpoint = None /\ start_level = arg_start)

\* What holds: a checkpoint object without the key is taken for no checkpoint
\* by all three scrapers, JSON that is no object by the radical and vocabulary
\* scrapers.
C24_MissingKeyIsNone ==
    (/\ pc \notin {"load_checkpoint", "killed"}
     /\ completed = {}
     /\ \/ ckptFile.kind = "no_key"
        \/ ckptFile.kind = "not_object" /\ driver # "kanji") =>
        (failure \notin {"load_checkpoint", "resume"}
            /\ checkpoint = None /\ start_level = arg_start)

\* What run() does with the output file it finds, as far as it shows: whether
\* it raises, and the levels the store holds afterwards.
LoadShows(drv) ==
    LET r == load_results(drv, outFile, InitResults(drv, outFile))
    IN <<r.raised, DOMAIN r.value>>

\* C25: at every point of the run loop where a scraper decides how to go on,
\* the three scrapers decide alike on the same files, index, level, records
\* and write outcome: whether the resume check and the loading of the output
\* file raise and what they yield, whether the level is an error, whether the
\* store gets the level's entry and the output file is written, and whether a
\* failed write ends the run.
C25_DriversDecideAlike ==
    \A d \in Drivers :
        /\ pc = "load_checkpoint" =>
              load_checkpoint(d, ckptFile) = load_checkpoint(driver, ckptFile)
        /\ pc = "load_results" => LoadShows(d) = LoadShows(driver)
        /\ pc = "process_level" =>
              (LevelLookup(d, index, level) = "raise"
                  <=> LevelLookup(driver, index, level) = "raise")
        /\ pc = "store" =>
              /\ AfterStore(d, level_results) = AfterStore(driver, level_results)
              /\ DOMAIN StoreResults(d, results, level, level_results)
                    = DOMAIN StoreResults(driver, results, level, level_results)
        /\ pc \in {"save_results", "save_checkpoint"} =>
              \A o \in WriteOutcomes : SaveRaises(d, o) = SaveRaises(driver, o)

\* C26: when the run has completed and deleted the checkpoint, the output file
\* holds an entry for every level of the configured range that has an item in
\* the input index, whatever files the run started from.
C26_CompleteOutputOnCompletion ==
    pc = "done" =>
        \A l \in arg_start..end_level : HasItems(l) => OutHas(l)

\* What holds: a kanji run that completes leaves an entry for every level from
\* the level it resumed at to the configured end, and every scraper has them in
\* its store.
C26_ResumedLevelsStored ==
    pc = "done" =>
        \A l \in start_level..end_level :
            HasItems(l) => (str(l) \in DOMAIN results /\ (driver = "kanji" => OutHas(l)))

\* C27 as stated: every value that gets into the checkpoint file is one more
\* than the value the file held, or, when it held none, one more than the
\* checkpoint loaded at start or the configured start; none exceeds the end.
C27_WrittenValuesConsecutive ==
    [][ (ckptFile' # ckptFile /\ ckptFile'.kind = "object") =>
            /\ ckptFile'.llc <= end_level
            /\ ckptFile'.llc =
                  IF ckptFile.kind = "object" THEN ckptFile.llc + 1
                  ELSE IF checkpoint # None THEN checkpoint[1] + 1
                  ELSE arg_start
      ]_vars

\* C27: the values passed to _save_checkpoint() in a run are consecutive: the
\* value is the level just processed, the levels completed before are exactly
\* those from the level the run started at (one more than the checkpoint loaded,
\* or the configured start) up to the one before, and it does not exceed the
\* end.  The file then holds that value, or what a failed write leaves, and the
\* value is greater than any the file held.
C27_CheckpointWrites ==
    [][ (pc = "save_checkpoint" /\ pc' # "killed") =>
            /\ level >= start_level /\ level <= end_level
            /\ completed = start_level..(level - 1)
            /\ start_level = IF checkpoint = None THEN arg_start ELSE checkpoint[1] + 1
            /\ ckptFile.kind = "object" => ckptFile.llc < level
            /\ ckptFile' \in {ckptFile, InvalidFile, CheckpointJson(level)}
            /\ pc' = "loop" => (level' = level + 1 /\ completed' = start_level..level)
      ]_vars

C27_Witness ==
    /\ pc = "loop"
    /\ completed = {1, 2}
    /\ ckptFile = CheckpointJson(2)
    /\ checkpoint = None

\* The checkpoint loaded at start names the end level or a later one.
NothingLeft ==
    checkpoint # None /\ IsInt(checkpoint) /\ checkpoint[1] >= end_level

\* C28: a run whose loaded checkpoint is at or past the end level fetches
\* nothing, never gets to process a level or to write a file, does not end on
\* an error, and has deleted the checkpoint file when it is done.
C28_NothingLeftCompletes ==
    NothingLeft =>
        /\ fetched = << >>
        /\ pc \in {"load_results", "loop", "cleanup", "done"}
        /\ completed = {}
        /\ pc = "done" => (ckptFile = AbsentFile /\ exit_code = "zero")

\* What holds: the same, unless the kanji scraper finds an output file that it
\* cannot decode.
C28_NothingLeftUnlessUndecodable ==
    (NothingLeft /\ ~(driver = "kanji" /\ outFile.kind = "undecodable")) =>
        /\ fetched = << >>
        /\ pc \in {"load_results", "loop", "cleanup", "done"}
        /\ completed = {}
        /\ pc = "done" => (ckptFile = AbsentFile /\ exit_code = "zero")

\* The kanji or vocabulary scraper is about to process a level that is no key
\* of the input index.
MissingLevelAhead ==
    /\ driver \in {"kanji", "vocabulary"}
    /\ pc = "process_level"
    /\ str(level) \notin DOMAIN index

\* C29: in the kanji and vocabulary scrapers a level of the range that is no
\* key of the input index ends the process at the head of process_level():
\* nothing of the level is fetched, the store and the output file stay as they
\* are, without an entry for the level, and the checkpoint file, which does not
\* name the level, stays as it is.
C29_MissingLevelHalts ==
    [][ (MissingLevelAhead /\ pc' # "killed") =>
            /\ pc' = "halted"
            /\ failure' = "level_not_found"
            /\ exit_code' = "nonzero"
            /\ fetched' = fetched
            /\ \A i \in DOMAIN fetched' : fetched'[i][1] # level
            /\ results' = results
            /\ str(level) \notin DOMAIN results'
            /\ outFile' = outFile
            /\ ckptFile' = ckptFile
            /\ level \notin completed'
            /\ ckptFile'.kind = "object" => ckptFile'.llc # level
      ]_vars

C29_Witness ==
    /\ driver = "vocabulary"
    /\ pc = "halted"
    /\ failure = "level_not_found"
    /\ level = 2
    /\ completed = {1}
    /\ ckptFile = CheckpointJson(1)
    /\ str(2) \notin DOMAIN results

\* The run is over: completed with the checkpoint file deleted, or ended on
\* the error of the first step that failed, or killed.
Completed == pc = "done" /\ exit_code = "zero" /\ ~exists(ckptFile)
HaltedOnFailure == pc = "halted" /\ failure # "none" /\ exit_code = "nonzero"
Terminated == Completed \/ HaltedOnFailure \/ pc = "killed"

\* No position of the index is fetched twice, the fetches follow the order of
\* the levels and of the items in a level, and a level about to be processed
\* has neither been completed nor fetched from by this run.
NoRepeat ==
    /\ \A i, j \in DOMAIN fetched :
          i < j => \/ fetched[i][1] < fetched[j][1]
                   \/ fetched[i][1] = fetched[j][1] /\ fetched[i][2] < fetched[j][2]
    /\ pc = "process_level" => (level \notin completed /\ level \notin FetchedLevels)
    /\ \A l \in completed : l < level \/ pc = "killed"

\* C30: every run that is not left waiting ends, by completing the range and
\* deleting the checkpoint file, by halting on the first failure, or by being
\* killed; and at no point has it processed a level or an item a second time.
C30_RunTerminates == []NoRepeat /\ <>Terminated

C30_Witness ==
    /\ Completed
    /\ Len(fetched) = MaxLevel * MaxItems
    /\ completed = Levels

====
